---------------------------- MODULE Spec2Model ----------------------------
(***************************************************************************)
(* A model of src/app.js of gpx-bike-simulator: the physics core           *)
(* (calculateSegmentData, calculatePowerNeeded, calculateSpeed,            *)
(* runSimulation, updateSummaryCards) and the handlers that drive it.      *)
(*                                                                         *)
(* Numbers.  A JavaScript Number is modelled as an exact rational          *)
(* s * n / d (sign s, magnitude n, denominator d, both naturals of         *)
(* arbitrary size held as sequences of base-Base limbs), extended with     *)
(* the IEEE values the code can produce by dividing by zero: NaN (0/0)     *)
(* and +-Infinity (x/0).  Rounding of the 53-bit mantissa is not           *)
(* modelled; Math.sqrt, Math.atan, Math.sin and Math.cos are computed      *)
(* exactly, which they are on the inputs the model draws (right            *)
(* triangles with integer sides).                                          *)
(***************************************************************************)
EXTENDS Integers, Sequences, FiniteSets, TLC

VARIABLES
    cs,                    \* one activation of calculateSpeed: arguments, position, locals
    gpxData,               \* the loaded route: [loaded, points]
    inputs,                \* the values of the weight, cda, pmax and vmax fields
    simulationDataGlobal,  \* the stored result sequence: [set, data]
    selectedRange,         \* [set, start, end]
    run,                   \* what the last runSimulation handed to displayResults
    cards,                 \* what the last updateSummaryCards computed
    lastAlert,             \* the text of the last alert, "" when there was none
    noted,                 \* an earlier updateSummaryCards call, kept for comparison
    simulateTimeout,       \* the id setTimeout last returned to autoSimulate, 0 for null
    timers,                \* the ids of the timers that are pending
    hist,                  \* what happened since the pending timer was first needed
    defaultLoad,           \* the position of loadDefaultGPX
    isSelecting,           \* line 14
    isChartSelecting,      \* the global that line 1422 assigns: [declared, value]
    map,                   \* the Leaflet map and the locals of its enableMapSelection
    charts                 \* per chart: [exists, pan, selectionStartX]

solverVars == <<cs>>
appVars == <<simulateTimeout, timers, hist, defaultLoad, isSelecting, isChartSelecting>>
viewVars == <<map, charts>>
simVars ==
    <<gpxData, inputs, simulationDataGlobal, selectedRange, run, cards, lastAlert, noted,
      simulateTimeout, timers, hist, defaultLoad, isSelecting, isChartSelecting,
      map, charts>>
vars ==
    <<cs, gpxData, inputs, simulationDataGlobal, selectedRange, run, cards, lastAlert,
      noted, simulateTimeout, timers, hist, defaultLoad, isSelecting,
      isChartSelecting, map, charts>>

(***************************************************************************)
(* Natural numbers of arbitrary size: little-endian limbs, no leading      *)
(* zero limb, zero is the empty sequence.                                  *)
(***************************************************************************)
Base == 10 ^ 4

RECURSIVE BTrim(_)
BTrim(a) ==
    IF a = <<>> \/ a[Len(a)] # 0 THEN a ELSE BTrim(SubSeq(a, 1, Len(a) - 1))

RECURSIVE NatToBig(_)
NatToBig(k) ==
    IF k = 0 THEN <<>> ELSE <<k % Base>> \o NatToBig(k \div Base)

RECURSIVE BAddC(_, _, _)
BAddC(a, b, c) ==
    IF b = <<>> /\ c = 0 THEN a
    ELSE IF a = <<>> /\ c = 0 THEN b
    ELSE IF a = <<>> /\ b = <<>> THEN <<c>>
    ELSE LET x == (IF a = <<>> THEN 0 ELSE Head(a))
                  + (IF b = <<>> THEN 0 ELSE Head(b)) + c
         IN  <<x % Base>> \o BAddC(IF a = <<>> THEN <<>> ELSE Tail(a),
                                   IF b = <<>> THEN <<>> ELSE Tail(b),
                                   x \div Base)

BAdd(a, b) == BAddC(a, b, 0)

\* a - b for a >= b, before the leading zero limbs are removed
RECURSIVE BSubB(_, _, _)
BSubB(a, b, c) ==
    IF b = <<>> /\ c = 0 THEN a
    ELSE LET x == Head(a) - (IF b = <<>> THEN 0 ELSE Head(b)) - c
         IN  <<x % Base>> \o BSubB(Tail(a),
                                   IF b = <<>> THEN <<>> ELSE Tail(b),
                                   IF x < 0 THEN 1 ELSE 0)

BSub(a, b) == BTrim(BSubB(a, b, 0))

RECURSIVE BCmpAt(_, _, _)
BCmpAt(a, b, i) ==
    IF i = 0 THEN 0
    ELSE IF a[i] < b[i] THEN -1
    ELSE IF a[i] > b[i] THEN 1
    ELSE BCmpAt(a, b, i - 1)

\* -1, 0 or 1 as a < b, a = b or a > b
BCmp(a, b) ==
    IF Len(a) < Len(b) THEN -1
    ELSE IF Len(a) > Len(b) THEN 1
    ELSE BCmpAt(a, b, Len(a))

RECURSIVE BMulLimb(_, _, _)
BMulLimb(a, m, c) ==
    IF a = <<>> THEN (IF c = 0 THEN <<>> ELSE <<c>>)
    ELSE LET x == Head(a) * m + c
         IN  <<x % Base>> \o BMulLimb(Tail(a), m, x \div Base)

BShift(a) == IF a = <<>> THEN <<>> ELSE <<0>> \o a

RECURSIVE BMul(_, _)
BMul(a, b) ==
    IF a = <<>> \/ b = <<>> THEN <<>>
    ELSE BAdd(IF Head(b) = 0 THEN <<>> ELSE BMulLimb(a, Head(b), 0),
              BShift(BMul(a, Tail(b))))

\* the limbs 1..i of a divided by the small number p, with r carried in
RECURSIVE BDivAt(_, _, _, _)
BDivAt(a, p, i, r) ==
    IF i = 0 THEN <<>>
    ELSE LET x == r * Base + a[i]
         IN  BDivAt(a, p, i - 1, x % p) \o <<x \div p>>

BDivSmall(a, p) == BTrim(BDivAt(a, p, Len(a), 0))

RECURSIVE BModAt(_, _, _, _)
BModAt(a, p, i, r) ==
    IF i = 0 THEN r ELSE BModAt(a, p, i - 1, (r * Base + a[i]) % p)

BModSmall(a, p) == BModAt(a, p, Len(a), 0)

\* k zero limbs
RECURSIVE BZeros(_)
BZeros(k) == IF k = 0 THEN <<>> ELSE <<0>> \o BZeros(k - 1)

\* the largest limb q with (r + q * Base^(i-1))^2 <= x, by bisection of [lo, hi)
RECURSIVE BSqrtLimb(_, _, _, _, _)
BSqrtLimb(x, r, i, lo, hi) ==
    IF lo + 1 >= hi THEN lo
    ELSE LET mid == (lo + hi) \div 2
             c == BTrim([r EXCEPT ![i] = mid])
         IN  IF BCmp(BMul(c, c), x) <= 0
             THEN BSqrtLimb(x, r, i, mid, hi) ELSE BSqrtLimb(x, r, i, lo, mid)

RECURSIVE BSqrtFrom(_, _, _)
BSqrtFrom(x, r, i) ==
    IF i = 0 THEN BTrim(r)
    ELSE BSqrtFrom(x, [r EXCEPT ![i] = BSqrtLimb(x, r, i, 0, Base)], i - 1)

\* the integer square root, limb by limb from the most significant one
BSqrt(x) ==
    LET k == (Len(x) + 1) \div 2
    IN  BSqrtFrom(x, BZeros(k), k)

(***************************************************************************)
(* JavaScript Numbers: [s, n, d] is s*n/d; d = <<>> marks the non-finite   *)
(* values, NaN with s = 0 and +-Infinity with s = +-1.                     *)
(***************************************************************************)
NaN == [s |-> 0, n |-> <<>>, d |-> <<>>]
Infinity(sg) == [s |-> sg, n |-> <<1>>, d |-> <<>>]
Zero == [s |-> 0, n |-> <<>>, d |-> <<1>>]

IsNaN(x) == x.d = <<>> /\ x.s = 0
IsFinite(x) == x.d # <<>>

Num(sg, n, d) == IF n = <<>> THEN Zero ELSE [s |-> sg, n |-> n, d |-> d]

\* the common factors p removed from the pair <<n, d>> (the value n/d is unchanged)
RECURSIVE Strip(_, _)
Strip(nd, p) ==
    IF BModSmall(nd[1], p) = 0 /\ BModSmall(nd[2], p) = 0
    THEN Strip(<<BDivSmall(nd[1], p), BDivSmall(nd[2], p)>>, p)
    ELSE nd

NumOfPair(sg, nd) == [s |-> sg, n |-> nd[1], d |-> nd[2]]

\* s*n/d with the common factors 2, 3 and 5 removed, which keeps the
\* denominators of repeated halving short
Norm(sg, n, d) ==
    IF n = <<>> THEN Zero
    ELSE NumOfPair(sg, Strip(Strip(Strip(<<n, d>>, 2), 3), 5))

\* the Number a/b of two integers, b > 0
NumOf(a, b) ==
    Num(IF a < 0 THEN -1 ELSE IF a = 0 THEN 0 ELSE 1,
        NatToBig(IF a < 0 THEN -a ELSE a), NatToBig(b))

Neg(x) == [x EXCEPT !.s = -x.s]

\* -1, 0, 1 as x < y, x = y, x > y, for x and y that are not NaN
Cmp(x, y) ==
    IF ~IsFinite(x) \/ ~IsFinite(y)
    THEN LET rx == IF IsFinite(x) THEN 0 ELSE x.s
             ry == IF IsFinite(y) THEN 0 ELSE y.s
         IN  IF rx < ry THEN -1 ELSE IF rx > ry THEN 1 ELSE 0
    ELSE IF x.s # y.s THEN (IF x.s < y.s THEN -1 ELSE 1)
    ELSE IF x.s = 0 THEN 0
    ELSE x.s * BCmp(BMul(x.n, y.d), BMul(y.n, x.d))

\* the comparison operators of the language: false when an operand is NaN
Lt(x, y) == ~IsNaN(x) /\ ~IsNaN(y) /\ Cmp(x, y) < 0
Le(x, y) == ~IsNaN(x) /\ ~IsNaN(y) /\ Cmp(x, y) <= 0
Gt(x, y) == Lt(y, x)
Ge(x, y) == Le(y, x)
Eq(x, y) == ~IsNaN(x) /\ ~IsNaN(y) /\ Cmp(x, y) = 0
\* the same Number: equal, or both NaN
Same(x, y) == (IsNaN(x) /\ IsNaN(y)) \/ Eq(x, y)

\* s1*a + s2*b of two signed naturals, over the denominator d
AddSigned(s1, a, s2, b, d) ==
    IF s1 = 0 THEN Num(s2, b, d)
    ELSE IF s2 = 0 THEN Num(s1, a, d)
    ELSE IF s1 = s2 THEN Num(s1, BAdd(a, b), d)
    ELSE IF BCmp(a, b) >= 0 THEN Num(s1, BSub(a, b), d)
    ELSE Num(s2, BSub(b, a), d)

Add(x, y) ==
    IF IsNaN(x) \/ IsNaN(y) THEN NaN
    ELSE IF ~IsFinite(x) THEN (IF ~IsFinite(y) /\ y.s # x.s THEN NaN ELSE x)
    ELSE IF ~IsFinite(y) THEN y
    ELSE IF x.d = y.d THEN AddSigned(x.s, x.n, y.s, y.n, x.d)
    ELSE AddSigned(x.s, BMul(x.n, y.d), y.s, BMul(y.n, x.d), BMul(x.d, y.d))

Sub(x, y) == Add(x, Neg(y))

Mul(x, y) ==
    IF IsNaN(x) \/ IsNaN(y) THEN NaN
    ELSE IF ~IsFinite(x) \/ ~IsFinite(y)
    THEN (IF x.s * y.s = 0 THEN NaN ELSE Infinity(x.s * y.s))
    ELSE Num(x.s * y.s, BMul(x.n, y.n), BMul(x.d, y.d))

\* x / y; the sign of a zero is not modelled, x / 0 is +-Infinity by the sign of x
Div(x, y) ==
    IF IsNaN(x) \/ IsNaN(y) THEN NaN
    ELSE IF ~IsFinite(y) THEN (IF ~IsFinite(x) THEN NaN ELSE Zero)
    ELSE IF ~IsFinite(x) THEN Infinity(IF y.s < 0 THEN -x.s ELSE x.s)
    ELSE IF y.s = 0 THEN (IF x.s = 0 THEN NaN ELSE Infinity(x.s))
    ELSE Norm(x.s * y.s, BMul(x.n, y.d), BMul(x.d, y.n))

\* Math.max(a, b): NaN when an operand is NaN
MathMax(x, y) ==
    IF IsNaN(x) \/ IsNaN(y) THEN NaN ELSE IF Cmp(x, y) >= 0 THEN x ELSE y

\* Math.sqrt(x), exact when x is the square of a rational
MathSqrt(x) ==
    IF IsNaN(x) \/ x.s < 0 THEN NaN
    ELSE IF ~IsFinite(x) THEN x
    ELSE Num(x.s, BSqrt(BMul(x.n, x.d)), x.d)

IsSquare(x) == IsFinite(x) /\ x.s >= 0 /\ Eq(Mul(MathSqrt(x), MathSqrt(x)), x)


(***************************************************************************)
(* Constants of the program.                                               *)
(***************************************************************************)
g == NumOf(981, 100)
rho == NumOf(1225, 1000)
Crr == NumOf(4, 1000)

One == NumOf(1, 1)
Two == NumOf(2, 1)
Half == NumOf(5, 10)

\* Math.sin(Math.atan(grade)) and Math.cos(Math.atan(grade)):
\* grade / sqrt(1 + grade^2) and 1 / sqrt(1 + grade^2)
SinAtan(grade) == Div(grade, MathSqrt(Add(One, Mul(grade, grade))))
CosAtan(grade) == Div(One, MathSqrt(Add(One, Mul(grade, grade))))

\* the air resistance with its sign reversed
calculatePowerNeeded_AirSubtracted(speed_ms, grade, mass, CdA) ==
    LET F_gravity == Mul(Mul(mass, g), SinAtan(grade))
        F_rolling == Mul(Mul(Mul(mass, g), CosAtan(grade)), Crr)
        F_air == Mul(Mul(Mul(Mul(Half, rho), CdA), speed_ms), speed_ms)
        totalForce == Sub(Add(F_gravity, F_rolling), F_air)
    IN  Mul(totalForce, speed_ms)

calculatePowerNeeded(speed_ms, grade, mass, CdA) ==
    LET F_gravity == Mul(Mul(mass, g), SinAtan(grade))
        F_rolling == Mul(Mul(Mul(mass, g), CosAtan(grade)), Crr)
        F_air == Mul(Mul(Mul(Mul(Half, rho), CdA), speed_ms), speed_ms)
        totalForce == Add(Add(F_gravity, F_rolling), F_air)
        power == Mul(totalForce, speed_ms)
    IN  power

(***************************************************************************)
(* calculateSpeed.  The search is a loop over the bracket                  *)
(* [vMin, vMax, iterations]; the pieces below are its entry test, its      *)
(* loop test, its body and its return value.                               *)
(***************************************************************************)
vMinInit == NumOf(1, 10)
tolerance == NumOf(1, 1000)
maxIterations == 100

\* the early return is taken only below Pmax, not at it
ReachesVmax_Strict(grade, mass, CdA, Pmax, Vmax_ms) ==
    Lt(calculatePowerNeeded(Vmax_ms, grade, mass, CdA), Pmax)

ReachesVmax(grade, mass, CdA, Pmax, Vmax_ms) ==
    LET powerAtVmax == calculatePowerNeeded(Vmax_ms, grade, mass, CdA)
    IN  Le(powerAtVmax, Pmax)

\* the search starts at speed 0 instead of the 0.1 m/s floor
InitialBracket_NoFloor(Vmax_ms) ==
    [vMin |-> Zero, vMax |-> Vmax_ms, iterations |-> 0]

InitialBracket(Vmax_ms) ==
    [vMin |-> vMinInit, vMax |-> Vmax_ms, iterations |-> 0]

\* the iteration cap is left out of the loop test
LoopContinues_NoCap(b) == Gt(Sub(b.vMax, b.vMin), tolerance)

LoopContinues(b) ==
    Gt(Sub(b.vMax, b.vMin), tolerance) /\ b.iterations < maxIterations

\* the two branches of the search exchanged
LoopBody_Swapped(b, grade, mass, CdA, Pmax) ==
    LET vMid == Div(Add(b.vMin, b.vMax), Two)
        powerNeeded == calculatePowerNeeded(vMid, grade, mass, CdA)
    IN  IF Lt(powerNeeded, Pmax)
        THEN [b EXCEPT !.vMax = vMid, !.iterations = @ + 1]
        ELSE [b EXCEPT !.vMin = vMid, !.iterations = @ + 1]

LoopBody(b, grade, mass, CdA, Pmax) ==
    LET vMid == Div(Add(b.vMin, b.vMax), Two)
        powerNeeded == calculatePowerNeeded(vMid, grade, mass, CdA)
    IN  IF Lt(powerNeeded, Pmax)
        THEN [b EXCEPT !.vMin = vMid, !.iterations = @ + 1]
        ELSE [b EXCEPT !.vMax = vMid, !.iterations = @ + 1]

Midpoint(b) == Div(Add(b.vMin, b.vMax), Two)

RECURSIVE SearchLoop(_, _, _, _, _)
SearchLoop(b, grade, mass, CdA, Pmax) ==
    IF LoopContinues(b)
    THEN SearchLoop(LoopBody(b, grade, mass, CdA, Pmax), grade, mass, CdA, Pmax)
    ELSE b

calculateSpeed(grade, mass, CdA, Pmax, Vmax_ms) ==
    IF ReachesVmax(grade, mass, CdA, Pmax, Vmax_ms)
    THEN Vmax_ms
    ELSE Midpoint(SearchLoop(InitialBracket(Vmax_ms), grade, mass, CdA, Pmax))


(***************************************************************************)
(* calculateDistance.  A latitude is held in units of the angle that       *)
(* subtends one metre of the sphere of radius R = 6371000 m, and the       *)
(* routes of the model run along one meridian: for lon1 = lon2 the         *)
(* haversine formula gives a = sin^2(dphi/2), c = |dphi| and R * c is the  *)
(* difference of the latitudes in metres.                                  *)
(***************************************************************************)
Abs(x) == IF x.s < 0 THEN Neg(x) ELSE x

calculateDistance(lat1, lon1, lat2, lon2) == Abs(Sub(lat2, lat1))

\* the grade divided without the guard of line 233
SegmentOf_Unguarded(p1, p2, horizontalDist, elevationChange, totalDistance) ==
    [distance |-> MathSqrt(Add(Mul(horizontalDist, horizontalDist),
                               Mul(elevationChange, elevationChange))),
     grade |-> Div(elevationChange, horizontalDist),
     elevation |-> p2.ele,
     cumulativeDistance |->
         Add(totalDistance,
             MathSqrt(Add(Mul(horizontalDist, horizontalDist),
                          Mul(elevationChange, elevationChange)))),
     lat |-> p2.lat, lon |-> p2.lon]

\* lines 225-245: the segment of two points, given its horizontal distance and
\* elevation change; totalDistance is the cumulative distance before it
SegmentOf(p1, p2, horizontalDist, elevationChange, totalDistance) ==
    [distance |-> MathSqrt(Add(Mul(horizontalDist, horizontalDist),
                               Mul(elevationChange, elevationChange))),
     grade |-> IF Gt(horizontalDist, Zero)
               THEN Div(elevationChange, horizontalDist) ELSE Zero,
     elevation |-> p2.ele,
     cumulativeDistance |->
         Add(totalDistance,
             MathSqrt(Add(Mul(horizontalDist, horizontalDist),
                          Mul(elevationChange, elevationChange)))),
     lat |-> p2.lat, lon |-> p2.lon]

\* lines 224-246: the loop of calculateSegmentData from point i (1-based) on
RECURSIVE SegmentsFrom(_, _, _)
SegmentsFrom(points, i, totalDistance) ==
    IF i > Len(points) THEN <<>>
    ELSE <<SegmentOf(points[i - 1], points[i],
                     calculateDistance(points[i - 1].lat, points[i - 1].lon,
                                       points[i].lat, points[i].lon),
                     Sub(points[i].ele, points[i - 1].ele),
                     totalDistance)>>
         \o SegmentsFrom(points, i + 1,
                SegmentOf(points[i - 1], points[i],
                     calculateDistance(points[i - 1].lat, points[i - 1].lon,
                                       points[i].lat, points[i].lon),
                     Sub(points[i].ele, points[i - 1].ele),
                     totalDistance).cumulativeDistance)

\* the loop started one point late
calculateSegmentData_FromSecond(points) == SegmentsFrom(points, 3, Zero)

calculateSegmentData(points) == SegmentsFrom(points, 2, Zero)

(***************************************************************************)
(* The routes: a route starts at StartPoint and moves along the meridian   *)
(* by one of                                                               *)
(* Moves = <<metres north, metres up>>: not at all, straight up, down a    *)
(* 19/180 slope, up a 3/4 slope.                                           *)
(***************************************************************************)
MaxPoints == 3

StartPoint == [lat |-> NumOf(1000, 1), lon |-> NumOf(7, 1), ele |-> NumOf(100, 1)]
Moves == {<<0, 0>>, <<0, 5>>, <<180, 0 - 19>>, <<4, 3>>}

Moved(p, m) ==
    [lat |-> Add(p.lat, NumOf(m[1], 1)), lon |-> p.lon, ele |-> Add(p.ele, NumOf(m[2], 1))]

RECURSIVE RoutesOfLen(_)
RoutesOfLen(n) ==
    IF n = 0 THEN {<<>>}
    ELSE IF n = 1 THEN {<<StartPoint>>}
    ELSE {Append(r, Moved(r[n - 1], m)) : r \in RoutesOfLen(n - 1), m \in Moves}

Routes == UNION {RoutesOfLen(n) : n \in 0..MaxPoints}

RiderInputs ==
    {[weight |-> NumOf(80, 1), cda |-> NumOf(3, 10), pmax |-> NumOf(250, 1),
      vmax |-> NumOf(36, 1)],
     [weight |-> NumOf(80, 1), cda |-> NumOf(3, 10), pmax |-> NumOf(30, 1),
      vmax |-> NumOf(40, 1)]}

\* field values outside the rider's domain: no speed, no power, negative
\* mass and drag area, a negative speed
InvalidInputs ==
    {[weight |-> NumOf(80, 1), cda |-> NumOf(3, 10), pmax |-> NumOf(250, 1), vmax |-> Zero],
     [weight |-> NumOf(80, 1), cda |-> NumOf(3, 10), pmax |-> Zero, vmax |-> NumOf(36, 1)],
     [weight |-> NumOf(0 - 80, 1), cda |-> NumOf(0 - 3, 10), pmax |-> NumOf(250, 1),
      vmax |-> NumOf(36, 1)],
     [weight |-> Zero, cda |-> Zero, pmax |-> NumOf(0 - 250, 1), vmax |-> NumOf(0 - 36, 1)]}

\* positive field values at the edges: a speed cap of 0.05 m/s, below the
\* floor of the search, and a power just short of what the cap of 25 m/s
\* needs on the 19/180 descent
EdgeInputs ==
    {[weight |-> NumOf(80, 1), cda |-> NumOf(3, 10), pmax |-> NumOf(20, 1),
      vmax |-> NumOf(18, 100)],
     [weight |-> NumOf(80, 1), cda |-> NumOf(3, 10), pmax |-> NumOf(888, 1),
      vmax |-> NumOf(90, 1)]}

\* the speeds of the grades and riders that the routes have, solved once
SpeedTable ==
    {<<<<sg.grade, i.weight, i.cda, i.pmax, Div(i.vmax, NumOf(36, 10))>>,
       calculateSpeed(sg.grade, i.weight, i.cda, i.pmax, Div(i.vmax, NumOf(36, 10)))>> :
        sg \in {calculateSegmentData(r)[1] : r \in RoutesOfLen(2)},
        i \in RiderInputs \cup InvalidInputs \cup EdgeInputs}

\* line 333: calculateSpeed(segment.grade, mass, CdA, Pmax, Vmax_ms)
SolvedSpeed(grade, mass, CdA, Pmax, Vmax_ms) ==
    IF \E e \in SpeedTable : e[1] = <<grade, mass, CdA, Pmax, Vmax_ms>>
    THEN (CHOOSE e \in SpeedTable : e[1] = <<grade, mass, CdA, Pmax, Vmax_ms>>)[2]
    ELSE calculateSpeed(grade, mass, CdA, Pmax, Vmax_ms)

(***************************************************************************)
(* runSimulation, lines 315-371: the result sequence.  The loop carries    *)
(* [totalTime, cumulativeElevationGain, previousElevation, simulationData]. *)
(***************************************************************************)
\* the first track point itself as the first entry
StartingPoint_FirstPoint(points) ==
    [distance |-> Zero, elevation |-> points[1].ele, speed |-> Zero,
     power |-> Zero, time |-> Zero, grade |-> Zero, elevationGain |-> Zero,
     hasLatLon |-> TRUE, lat |-> points[1].lat, lon |-> points[1].lon]

StartingPoint(points) ==
    [distance |-> Zero, elevation |-> points[1].ele, speed |-> Zero,
     power |-> Zero, time |-> Zero, grade |-> Zero, elevationGain |-> Zero,
     hasLatLon |-> FALSE, lat |-> NaN, lon |-> NaN]

\* the power needed reported without the floor at 0
ActualPower_NoFloor(speed_ms, segment, mass, CdA, Pmax, Vmax_ms) ==
    IF Ge(speed_ms, Sub(Vmax_ms, NumOf(1, 100)))
    THEN calculatePowerNeeded(speed_ms, segment.grade, mass, CdA)
    ELSE Pmax

\* lines 347-358
ActualPower(speed_ms, segment, mass, CdA, Pmax, Vmax_ms) ==
    IF Ge(speed_ms, Sub(Vmax_ms, NumOf(1, 100)))
    THEN MathMax(Zero, calculatePowerNeeded(speed_ms, segment.grade, mass, CdA))
    ELSE Pmax

\* the last climb alone as the gain
GainAfter_LastClimb(acc, segment) ==
    IF Gt(Sub(segment.elevation, acc.previousElevation), Zero)
    THEN Sub(segment.elevation, acc.previousElevation)
    ELSE acc.cumulativeElevationGain

\* every climb and descent added to the gain
GainAfter_Signed(acc, segment) ==
    Add(acc.cumulativeElevationGain, Sub(segment.elevation, acc.previousElevation))

\* lines 340-344
GainAfter(acc, segment) ==
    IF Gt(Sub(segment.elevation, acc.previousElevation), Zero)
    THEN Add(acc.cumulativeElevationGain,
             Sub(segment.elevation, acc.previousElevation))
    ELSE acc.cumulativeElevationGain

\* lines 332-370: one pass of the loop, given the speed solved for the segment
SegmentStep(acc, segment, speed_ms, mass, CdA, Pmax, Vmax_ms) ==
    [totalTime |-> Add(acc.totalTime, Div(segment.distance, speed_ms)),
     cumulativeElevationGain |-> GainAfter(acc, segment),
     previousElevation |-> segment.elevation,
     simulationData |-> Append(acc.simulationData,
        [distance |-> segment.cumulativeDistance,
         elevation |-> segment.elevation,
         speed |-> Mul(speed_ms, NumOf(36, 10)),
         power |-> ActualPower(speed_ms, segment, mass, CdA, Pmax, Vmax_ms),
         time |-> Add(acc.totalTime, Div(segment.distance, speed_ms)),
         grade |-> Mul(segment.grade, NumOf(100, 1)),
         elevationGain |-> GainAfter(acc, segment),
         hasLatLon |-> TRUE, lat |-> segment.lat, lon |-> segment.lon])]

RECURSIVE SegmentLoop(_, _, _, _, _, _, _)
SegmentLoop(acc, segments, i, mass, CdA, Pmax, Vmax_ms) ==
    IF i > Len(segments) THEN acc
    ELSE SegmentLoop(
            SegmentStep(acc, segments[i],
                        SolvedSpeed(segments[i].grade, mass, CdA, Pmax, Vmax_ms),
                        mass, CdA, Pmax, Vmax_ms),
            segments, i + 1, mass, CdA, Pmax, Vmax_ms)

\* lines 304 and 315-371: the loop run over all segments
Simulate(points, segments, mass, CdA, Pmax, Vmax_kmh) ==
    SegmentLoop([totalTime |-> Zero, cumulativeElevationGain |-> Zero,
                 previousElevation |-> points[1].ele,
                 simulationData |-> <<StartingPoint(points)>>],
                segments, 1, mass, CdA, Pmax, Div(Vmax_kmh, NumOf(36, 10)))

\* the sum of power * timeDiff over the (0-based) indices i..last:
\* lines 378-382 and 433-437
RECURSIVE SumPower(_, _, _, _)
SumPower(data, i, last, totalPower) ==
    IF i > last THEN totalPower
    ELSE SumPower(data, i + 1, last,
                  Add(totalPower,
                      Mul(data[i + 1].power,
                          Sub(data[i + 1].time, data[i].time))))

\* lines 373-383: the averages runSimulation computes in its own pass
RunTotals(simulationData, segments, totalTime) ==
    [totalTime |-> totalTime,
     totalDistance |-> segments[Len(segments)].cumulativeDistance,
     avgSpeed |-> Mul(Div(segments[Len(segments)].cumulativeDistance, totalTime),
                      NumOf(36, 10)),
     avgPower |-> Div(SumPower(simulationData, 1, Len(simulationData) - 1, Zero),
                      totalTime)]

(***************************************************************************)
(* updateSummaryCards, lines 416-438.  Indices are those of the code       *)
(* (0-based); NullIdx stands for a null or omitted endIdx.                 *)
(***************************************************************************)
NullIdx == 0 - 1

\* line 417: if (!endIdx) endIdx = data.length - 1
EffectiveEnd(data, endIdx) ==
    IF endIdx = NullIdx \/ endIdx = 0 THEN Len(data) - 1 ELSE endIdx

\* the plain mean of the power of the points after startIdx
SummaryOf_PlainMean(data, startIdx, endIdx, totalTime, totalDistance) ==
    [startIdx |-> startIdx, endIdx |-> endIdx,
     totalTime |-> totalTime, totalDistance |-> totalDistance,
     avgSpeed |-> IF Gt(totalTime, Zero)
                  THEN Mul(Div(totalDistance, totalTime), NumOf(36, 10)) ELSE Zero,
     avgPower |-> IF Gt(totalTime, Zero)
                  THEN Div(SumPower([i \in 1..Len(data) |->
                                        [power |-> data[i].power, time |-> NumOf(i, 1)]],
                                    startIdx + 1, endIdx, Zero),
                           NumOf(endIdx - startIdx, 1))
                  ELSE Zero]

\* the averages divided without the guard
SummaryOf_Unguarded(data, startIdx, endIdx, totalTime, totalDistance) ==
    [startIdx |-> startIdx, endIdx |-> endIdx,
     totalTime |-> totalTime, totalDistance |-> totalDistance,
     avgSpeed |-> Mul(Div(totalDistance, totalTime), NumOf(36, 10)),
     avgPower |-> Div(SumPower(data, startIdx + 1, endIdx, Zero), totalTime)]

\* lines 422-438, given the range and its total time and distance
SummaryOf(data, startIdx, endIdx, totalTime, totalDistance) ==
    [startIdx |-> startIdx, endIdx |-> endIdx,
     totalTime |-> totalTime, totalDistance |-> totalDistance,
     avgSpeed |-> IF Gt(totalTime, Zero)
                  THEN Mul(Div(totalDistance, totalTime), NumOf(36, 10)) ELSE Zero,
     avgPower |-> IF Gt(totalTime, Zero)
                  THEN Div(SumPower(data, startIdx + 1, endIdx, Zero), totalTime)
                  ELSE Zero]

RangeSummary(data, startIdx, endIdx) ==
    SummaryOf(data, startIdx, endIdx,
              Sub(data[endIdx + 1].time, data[startIdx + 1].time),
              Sub(data[endIdx + 1].distance, data[startIdx + 1].distance))

updateSummaryCards(data, startIdx, endIdx) ==
    RangeSummary(data, startIdx, EffectiveEnd(data, endIdx))

(***************************************************************************)
(* One call of calculateSpeed, statement by statement.  The arguments are  *)
(* drawn from the sets below: level ground, climbs, descents steeper and   *)
(* gentler than the rolling resistance, power budgets above, at and        *)
(* below the demand, speed caps above and below the 0.1 m/s floor and one  *)
(* so large that the search cannot close its bracket in 100 halvings.      *)
(***************************************************************************)
\* the application before a route is loaded: null, null, null, no call yet
NoRoute == [loaded |-> FALSE, points |-> <<>>]
NoData == [set |-> FALSE, data |-> <<>>]
NoRange == [set |-> FALSE, start |-> 0, end |-> 0]
NoTotals == [totalTime |-> NaN, totalDistance |-> NaN, avgSpeed |-> NaN, avgPower |-> NaN]
NoRun == [set |-> FALSE, mass |-> NaN, CdA |-> NaN, Pmax |-> NaN, Vmax_kmh |-> NaN,
          totals |-> NoTotals]
NoCards == [set |-> FALSE, startIdx |-> 0, endIdx |-> 0, out |-> NoTotals]
NoInputs == [weight |-> NaN, cda |-> NaN, pmax |-> NaN, vmax |-> NaN]
NoNote ==
    [set |-> FALSE, startIdx |-> 0, endIdx |-> 0, out |-> NoTotals, data |-> <<>>,
     later |-> 0]
NoHist ==
    [changes |-> 0, timerRuns |-> 0, invoked |-> FALSE, origin |-> "none",
     request |-> <<>>, mouse |-> "none"]

\* line 16: the five charts
Charts == {"elevation", "slope", "speed", "power", "progress"}

\* selectionStartX 0 stands for null, NoLatLng for null; rectEnd is the
\* corner the rectangle was last drawn to
NoLatLng == [lat |-> NaN, lng |-> NaN]
NoMap == [exists |-> FALSE, selectionRect |-> FALSE, startLatLng |-> NoLatLng,
          rectEnd |-> NoLatLng, dragging |-> FALSE]
NoCharts == [c \in Charts |-> [exists |-> FALSE, pan |-> FALSE, selectionStartX |-> 0]]
\* lines 478 and 556-557: a new map, with the locals of enableMapSelection
NewMap == [exists |-> TRUE, selectionRect |-> FALSE, startLatLng |-> NoLatLng,
           rectEnd |-> NoLatLng, dragging |-> TRUE]
\* lines 871-874 and 1417-1418: new charts, with the locals of
\* enableChartSelection
NewCharts == [c \in Charts |-> [exists |-> TRUE, pan |-> TRUE, selectionStartX |-> 0]]
Undeclared == [declared |-> FALSE, value |-> FALSE]

AppIdle ==
    /\ simulateTimeout = 0
    /\ timers = {}
    /\ hist = NoHist
    /\ defaultLoad = "done"
    /\ isSelecting = FALSE
    /\ isChartSelecting = Undeclared
    /\ map = NoMap
    /\ charts = NoCharts

SimIdle ==
    /\ gpxData = NoRoute
    /\ inputs = NoInputs
    /\ simulationDataGlobal = NoData
    /\ selectedRange = NoRange
    /\ run = NoRun
    /\ cards = NoCards
    /\ lastAlert = ""
    /\ noted = NoNote
    /\ AppIdle

HugeVmax == Mul(NumOf(2 * 10 ^ 9, 1), Mul(NumOf(10 ^ 9, 1), NumOf(10 ^ 9, 1)))

SolverGrades ==
    {Zero, NumOf(3, 4), NumOf(19, 180), NumOf(-19, 180), NumOf(-1001, 501000)}
SolverMasses == {NumOf(80, 1), NumOf(100, 1)}
SolverCdAs == {NumOf(3, 10)}
SolverPmaxes == {NumOf(250, 1), NumOf(215142, 1000), NumOf(30, 1), NumOf(20, 1), Zero}
SolverVmaxes == {NumOf(10, 1), NumOf(100, 9), NumOf(1, 20), HugeVmax, Zero}

NoBracket == [vMin |-> NaN, vMax |-> NaN, iterations |-> 0]

\* the speed cap too large for 100 halvings goes with one rider on level ground
SolverInputs ==
    ((SolverGrades \X SolverMasses \X SolverCdAs \X SolverPmaxes
            \X (SolverVmaxes \ {HugeVmax}))
        \cup {<<Zero, NumOf(80, 1), NumOf(3, 10), NumOf(250, 1), HugeVmax>>})

SolverInit ==
    \E i \in SolverInputs :
        cs = [grade |-> i[1], mass |-> i[2], CdA |-> i[3], Pmax |-> i[4],
              Vmax_ms |-> i[5], pc |-> "entry", b |-> NoBracket, ret |-> NaN]
    /\ SimIdle

\* lines 267-278: the early return, or the search set up
CsEntry ==
    /\ cs.pc = "entry"
    /\ IF ReachesVmax(cs.grade, cs.mass, cs.CdA, cs.Pmax, cs.Vmax_ms)
       THEN cs' = [cs EXCEPT !.pc = "returned", !.ret = cs.Vmax_ms]
       ELSE cs' = [cs EXCEPT !.pc = "loop", !.b = InitialBracket(cs.Vmax_ms)]
    /\ UNCHANGED simVars

\* lines 280-290: one pass of the loop
CsIterate ==
    /\ cs.pc = "loop"
    /\ LoopContinues(cs.b)
    /\ cs' = [cs EXCEPT !.b = LoopBody(cs.b, cs.grade, cs.mass, cs.CdA, cs.Pmax)]
    /\ UNCHANGED simVars

\* lines 280 and 292: the loop left, the midpoint returned
CsReturn ==
    /\ cs.pc = "loop"
    /\ ~LoopContinues(cs.b)
    /\ cs' = [cs EXCEPT !.pc = "returned", !.ret = Midpoint(cs.b)]
    /\ UNCHANGED simVars

SolverNext == CsEntry \/ CsIterate \/ CsReturn

SpecSolver == SolverInit /\ [][SolverNext]_vars

Positive(x) == Gt(x, Zero)
PowerAtVmax == calculatePowerNeeded(cs.Vmax_ms, cs.grade, cs.mass, cs.CdA)
Searched == cs.pc = "returned" /\ cs.b # NoBracket

\* the step machine and the function agree on what is returned
SolverAgrees ==
    cs.pc = "returned" =>
        Same(cs.ret, calculateSpeed(cs.grade, cs.mass, cs.CdA, cs.Pmax, cs.Vmax_ms))


\* The simulation of a loaded route and the summaries over its result.
SimInit ==
    /\ cs = [grade |-> Zero, mass |-> Zero, CdA |-> Zero, Pmax |-> Zero,
             Vmax_ms |-> Zero, pc |-> "idle", b |-> NoBracket, ret |-> NaN]
    /\ gpxData \in {[loaded |-> TRUE, points |-> r] : r \in Routes}
    /\ inputs \in RiderInputs
    /\ simulationDataGlobal = NoData
    /\ selectedRange = NoRange
    /\ run = NoRun
    /\ cards = NoCards
    /\ lastAlert = ""
    /\ noted = NoNote
    /\ AppIdle

\* the selection left as it was
DisplayResults_KeepRange(acc, segments) ==
    /\ map' = NewMap
    /\ charts' = NewCharts
    /\ run' = [set |-> TRUE, mass |-> inputs.weight, CdA |-> inputs.cda,
               Pmax |-> inputs.pmax, Vmax_kmh |-> inputs.vmax,
               totals |-> RunTotals(acc.simulationData, segments, acc.totalTime)]
    /\ simulationDataGlobal' = [set |-> TRUE, data |-> acc.simulationData]
    /\ UNCHANGED selectedRange
    /\ cards' = [set |-> TRUE, startIdx |-> 0, endIdx |-> NullIdx,
                 out |-> updateSummaryCards(acc.simulationData, 0, NullIdx)]
    /\ UNCHANGED lastAlert

\* lines 373-386 and 390-409: the totals taken, the result stored, the
\* selection reset, the cards updated over the whole result, the map and
\* the charts made anew (the listeners that destroyed charts leave on the
\* canvases are not modelled)
DisplayResults(acc, segments) ==
    /\ map' = NewMap
    /\ charts' = NewCharts
    /\ run' = [set |-> TRUE, mass |-> inputs.weight, CdA |-> inputs.cda,
               Pmax |-> inputs.pmax, Vmax_kmh |-> inputs.vmax,
               totals |-> RunTotals(acc.simulationData, segments, acc.totalTime)]
    /\ simulationDataGlobal' = [set |-> TRUE, data |-> acc.simulationData]
    /\ selectedRange' = NoRange
    /\ cards' = [set |-> TRUE, startIdx |-> 0, endIdx |-> NullIdx,
                 out |-> updateSummaryCards(acc.simulationData, 0, NullIdx)]
    /\ UNCHANGED lastAlert

\* a route too short left without a word
RunSimulationOn_NoAlert(points) ==
    IF calculateSegmentData(points) = <<>>
    THEN UNCHANGED <<simulationDataGlobal, selectedRange, run, cards, lastAlert,
                     map, charts>>
    ELSE DisplayResults(
             Simulate(points, calculateSegmentData(points),
                      inputs.weight, inputs.cda, inputs.pmax, inputs.vmax),
             calculateSegmentData(points))

\* lines 300-386: runSimulation on the points of the loaded route, with the
\* current inputs
RunSimulationOn(points) ==
    IF calculateSegmentData(points) = <<>>
    THEN /\ lastAlert' = "Not enough data points to simulate"
         /\ UNCHANGED <<simulationDataGlobal, selectedRange, run, cards, map, charts>>
    ELSE DisplayResults(
             Simulate(points, calculateSegmentData(points),
                      inputs.weight, inputs.cda, inputs.pmax, inputs.vmax),
             calculateSegmentData(points))

\* lines 296-387: runSimulation
RunSimulation ==
    /\ gpxData.loaded
    /\ RunSimulationOn(gpxData.points)
    /\ UNCHANGED <<cs, gpxData, inputs, noted>>
    /\ UNCHANGED appVars

\* lines 416-467: updateSummaryCards called on the stored result with a
\* range 0 <= startIdx <= endIdx <= length - 1
UpdateSummaryCards ==
    /\ simulationDataGlobal.set
    /\ \E startIdx \in 0..(Len(simulationDataGlobal.data) - 1) :
         \E endIdx \in startIdx..(Len(simulationDataGlobal.data) - 1) :
            cards' = [set |-> TRUE, startIdx |-> startIdx, endIdx |-> endIdx,
                      out |-> updateSummaryCards(simulationDataGlobal.data,
                                                 startIdx, endIdx)]
    /\ UNCHANGED <<cs, gpxData, inputs, simulationDataGlobal, selectedRange, run,
                   lastAlert, noted>>
    /\ UNCHANGED appVars
    /\ UNCHANGED viewVars

\* lines 825-846 call it with the defaults: startIdx = 0 and no endIdx
UpdateSummaryCardsDefault ==
    /\ simulationDataGlobal.set
    /\ cards' = [set |-> TRUE, startIdx |-> 0, endIdx |-> NullIdx,
                 out |-> updateSummaryCards(simulationDataGlobal.data, 0, NullIdx)]
    /\ UNCHANGED <<cs, gpxData, inputs, simulationDataGlobal, selectedRange, run,
                   lastAlert, noted>>
    /\ UNCHANGED appVars
    /\ UNCHANGED viewVars

SimNext == RunSimulation \/ UpdateSummaryCards \/ UpdateSummaryCardsDefault

SpecSim == SimInit /\ [][SimNext]_vars

\* the simulation with field values outside the rider's domain
InvalidInit ==
    /\ cs = [grade |-> Zero, mass |-> Zero, CdA |-> Zero, Pmax |-> Zero,
             Vmax_ms |-> Zero, pc |-> "idle", b |-> NoBracket, ret |-> NaN]
    /\ gpxData \in {[loaded |-> TRUE, points |-> r] : r \in Routes}
    /\ inputs \in InvalidInputs
    /\ simulationDataGlobal = NoData
    /\ selectedRange = NoRange
    /\ run = NoRun
    /\ cards = NoCards
    /\ lastAlert = ""
    /\ noted = NoNote
    /\ AppIdle

SpecInvalid == InvalidInit /\ [][SimNext]_vars

\* the simulation of routes that descend and climb, for the riders of
\* RiderInputs and EdgeInputs
EdgeInit ==
    /\ cs = [grade |-> Zero, mass |-> Zero, CdA |-> Zero, Pmax |-> Zero,
             Vmax_ms |-> Zero, pc |-> "idle", b |-> NoBracket, ret |-> NaN]
    /\ gpxData \in {[loaded |-> TRUE, points |-> r] :
                        r \in {q \in Routes : Len(q) >= 2
                                  /\ \A i \in 2..Len(q) : ~Eq(q[i].lat, q[i - 1].lat)}}
    /\ inputs \in RiderInputs \cup EdgeInputs
    /\ simulationDataGlobal = NoData
    /\ selectedRange = NoRange
    /\ run = NoRun
    /\ cards = NoCards
    /\ lastAlert = ""
    /\ noted = NoNote
    /\ AppIdle

SpecEdge == EdgeInit /\ [][SimNext]_vars

(***************************************************************************)
(* Repeated calls of updateSummaryCards on one result: the first call      *)
(* after the simulation is noted, with the sequence it was given and the   *)
(* number of calls made after it, at most MaxCalls.                        *)
(***************************************************************************)
MaxCalls == 2

RepeatRoutes ==
    {r \in Routes : Len(r) >= 2 /\ \A i \in 2..Len(r) : ~Eq(r[i].lat, r[i - 1].lat)}

RepeatInit ==
    /\ SimInit
    /\ gpxData.points \in RepeatRoutes
    /\ Eq(inputs.pmax, NumOf(250, 1))

\* the totals of the call added to those on the cards
SummaryCall_Carrying(startIdx, endIdx) ==
    cards' = [set |-> TRUE, startIdx |-> startIdx, endIdx |-> endIdx,
              out |-> [updateSummaryCards(simulationDataGlobal.data, startIdx, endIdx)
                         EXCEPT !.totalTime = Add(@, cards.out.totalTime)]]

\* lines 416-467: what one call leaves on the cards
SummaryCall(startIdx, endIdx) ==
    cards' = [set |-> TRUE, startIdx |-> startIdx, endIdx |-> endIdx,
              out |-> updateSummaryCards(simulationDataGlobal.data, startIdx, endIdx)]

NoteFirst ==
    noted' = IF noted.set THEN [noted EXCEPT !.later = @ + 1]
             ELSE [set |-> TRUE, startIdx |-> cards'.startIdx, endIdx |-> cards'.endIdx,
                   out |-> cards'.out, data |-> simulationDataGlobal.data, later |-> 0]

\* updateSummaryCards called with a range, or with the defaults
UpdateSummaryCardsNoted ==
    /\ simulationDataGlobal.set
    /\ noted.later < MaxCalls
    /\ \/ \E startIdx \in 0..(Len(simulationDataGlobal.data) - 1) :
            \E endIdx \in startIdx..(Len(simulationDataGlobal.data) - 1) :
                SummaryCall(startIdx, endIdx)
       \/ SummaryCall(0, NullIdx)
    /\ NoteFirst
    /\ UNCHANGED <<cs, gpxData, inputs, simulationDataGlobal, selectedRange, run, lastAlert>>
    /\ UNCHANGED appVars
    /\ UNCHANGED viewVars

RepeatNext == RunSimulation \/ UpdateSummaryCardsNoted

SpecRepeat == RepeatInit /\ [][RepeatNext]_vars


(***************************************************************************)
(* The page: file uploads, parameter inputs and the debounce timer.        *)
(* A file is what parseGPX makes of it: an exception, or the points with   *)
(* valid coordinates.  Timer ids are issued in order, only autoSimulate    *)
(* sets timers, and it sets at most MaxTimers of them.                     *)
(***************************************************************************)
MaxTimers == 2

AppRoutes ==
    RoutesOfLen(0) \cup RoutesOfLen(1)
        \cup {<<StartPoint, Moved(StartPoint, <<180, 0 - 19>>)>>}
AppFiles ==
    {[ok |-> FALSE, points |-> <<>>]} \cup {[ok |-> TRUE, points |-> r] : r \in AppRoutes}
FieldValues ==
    [weight |-> {NumOf(80, 1)}, cda |-> {NumOf(3, 10)},
     pmax |-> {NumOf(250, 1), NumOf(30, 1)}, vmax |-> {NumOf(36, 1), NumOf(40, 1)}]

AppInit ==
    /\ cs = [grade |-> Zero, mass |-> Zero, CdA |-> Zero, Pmax |-> Zero,
             Vmax_ms |-> Zero, pc |-> "idle", b |-> NoBracket, ret |-> NaN]
    /\ gpxData = NoRoute
    /\ inputs \in RiderInputs
    /\ simulationDataGlobal = NoData
    /\ selectedRange = NoRange
    /\ run = NoRun
    /\ cards = NoCards
    /\ lastAlert = ""
    /\ noted = NoNote
    /\ AppIdle

\* lines 144-163: handleFileUpload with the file f
UploadOf(f) ==
    /\ IF ~f.ok
        THEN /\ lastAlert' = "Error reading GPX file"
             /\ hist' = [hist EXCEPT !.invoked = FALSE]
             /\ UNCHANGED <<gpxData, simulationDataGlobal, selectedRange, run, cards,
                            map, charts>>
        ELSE /\ gpxData' = [loaded |-> TRUE, points |-> f.points]
             /\ IF Len(f.points) > 0
                THEN /\ RunSimulationOn(f.points)
                     /\ hist' = [hist EXCEPT !.invoked = TRUE, !.origin = "user"]
                ELSE /\ lastAlert' = "No valid track points found in GPX file"
                     /\ hist' = [hist EXCEPT !.invoked = FALSE, !.origin = "user"]
                     /\ UNCHANGED <<simulationDataGlobal, selectedRange, run, cards,
                                    map, charts>>
    /\ UNCHANGED <<cs, inputs, noted, simulateTimeout, timers, defaultLoad, isSelecting,
                   isChartSelecting>>

HandleFileUpload == \E f \in AppFiles : UploadOf(f)

(***************************************************************************)
(* The load of the default route, lines 75-92.  loadDefaultGPX waits for   *)
(* the response, then for its text, and runs the rest in one piece;        *)
(* handleFileUpload changes nothing before its one await, so               *)
(* HandleFileUpload is what it runs after it.  hist.origin tells whose     *)
(* route gpxData holds.                                                    *)
(***************************************************************************)
DefaultRoute == <<StartPoint, Moved(StartPoint, <<4, 3>>)>>
DefaultFiles ==
    {[ok |-> FALSE, points |-> <<>>], [ok |-> TRUE, points |-> <<>>],
     [ok |-> TRUE, points |-> DefaultRoute]}

LoadInit ==
    /\ cs = [grade |-> Zero, mass |-> Zero, CdA |-> Zero, Pmax |-> Zero,
             Vmax_ms |-> Zero, pc |-> "idle", b |-> NoBracket, ret |-> NaN]
    /\ gpxData = NoRoute
    /\ inputs \in RiderInputs
    /\ simulationDataGlobal = NoData
    /\ selectedRange = NoRange
    /\ run = NoRun
    /\ cards = NoCards
    /\ lastAlert = ""
    /\ noted = NoNote
    /\ simulateTimeout = 0
    /\ timers = {}
    /\ hist = NoHist
    /\ defaultLoad = "fetching"
    /\ isSelecting = FALSE
    /\ isChartSelecting = Undeclared
    /\ map = NoMap
    /\ charts = NoCharts

\* lines 77-78: the fetch settles; a rejection or a response that is not ok
\* ends the load
DefaultFetched ==
    /\ defaultLoad = "fetching"
    /\ \E ok \in BOOLEAN : defaultLoad' = IF ok THEN "reading" ELSE "done"
    /\ UNCHANGED <<cs, gpxData, inputs, simulationDataGlobal, selectedRange, run, cards,
                   lastAlert, noted, simulateTimeout, timers, hist, isSelecting,
                   isChartSelecting, map, charts>>

\* whose route gpxData holds after line 80 stored the default route
OriginAfterDefault(origin) ==
    IF origin \in {"user", "default over user"} THEN "default over user" ELSE "default"

\* lines 79-90: the text of the response f has arrived
DefaultRead ==
    /\ defaultLoad = "reading"
    /\ defaultLoad' = "done"
    /\ \E f \in DefaultFiles :
        IF ~f.ok
        THEN /\ hist' = [hist EXCEPT !.invoked = FALSE]
             /\ UNCHANGED <<gpxData, simulationDataGlobal, selectedRange, run, cards,
                            lastAlert, map, charts>>
        ELSE /\ gpxData' = [loaded |-> TRUE, points |-> f.points]
             /\ IF Len(f.points) > 0
                THEN /\ RunSimulationOn(f.points)
                     /\ hist' = [hist EXCEPT !.invoked = TRUE,
                                             !.origin = OriginAfterDefault(@)]
                ELSE /\ hist' = [hist EXCEPT !.invoked = FALSE,
                                             !.origin = OriginAfterDefault(@)]
                     /\ UNCHANGED <<simulationDataGlobal, selectedRange, run, cards,
                                    lastAlert, map, charts>>
    /\ UNCHANGED <<cs, inputs, noted, simulateTimeout, timers, isSelecting,
                   isChartSelecting>>

LoadNext == HandleFileUpload \/ DefaultFetched \/ DefaultRead

SpecLoad == LoadInit /\ [][LoadNext]_vars

\* the timer cleared and none set
PendingAfterAutoSimulate_Cancelled(pending, old, new) == pending \ {old}

\* the timer of the superseded call left pending
PendingAfterAutoSimulate_NoClear(pending, old, new) == pending \cup {new}

\* lines 68-71: clearTimeout(simulateTimeout), then setTimeout
PendingAfterAutoSimulate(pending, old, new) == (pending \ {old}) \cup {new}

\* lines 64-72: autoSimulate
AutoSimulate ==
    IF ~gpxData.loaded
    THEN /\ hist' = [hist EXCEPT !.invoked = FALSE]
         /\ UNCHANGED <<simulateTimeout, timers>>
    ELSE /\ timers' = PendingAfterAutoSimulate(timers, simulateTimeout, simulateTimeout + 1)
         /\ simulateTimeout' = simulateTimeout + 1
         /\ hist' = [changes |-> IF timers = {} THEN 1 ELSE hist.changes + 1,
                     timerRuns |-> IF timers = {} THEN 0 ELSE hist.timerRuns,
                     invoked |-> FALSE, origin |-> hist.origin,
                     request |-> hist.request, mouse |-> hist.mouse]

\* lines 42-53: an input event of a parameter field or of its slider
ParameterInput ==
    /\ gpxData.loaded => simulateTimeout < MaxTimers
    /\ \E field \in DOMAIN FieldValues : \E v \in FieldValues[field] :
            inputs' = [inputs EXCEPT ![field] = v]
    /\ AutoSimulate
    /\ UNCHANGED <<cs, gpxData, simulationDataGlobal, selectedRange, run, cards,
                   lastAlert, noted, defaultLoad, isSelecting, isChartSelecting,
                   map, charts>>

\* lines 69-71: a pending timer fires and calls runSimulation
TimerFires ==
    /\ \E id \in timers : timers' = timers \ {id}
    /\ IF gpxData.loaded
       THEN RunSimulationOn(gpxData.points)
       ELSE UNCHANGED <<simulationDataGlobal, selectedRange, run, cards, lastAlert,
                        map, charts>>
    /\ hist' = [hist EXCEPT !.timerRuns = @ + 1, !.invoked = TRUE]
    /\ UNCHANGED <<cs, gpxData, inputs, noted, simulateTimeout, defaultLoad,
                   isSelecting, isChartSelecting>>

AppNext == HandleFileUpload \/ ParameterInput \/ TimerFires

SpecApp == AppInit /\ [][AppNext]_vars

\* A timer that setTimeout set and clearTimeout has not cleared fires once
\* its 150 ms are over.  TimerElapses is what a step of TimerFires, and of
\* no other action, does to timers; it is enabled when TimerFires is.
TimerElapses == \E id \in timers : timers' = timers \ {id}

SpecAppLive == AppInit /\ [][AppNext]_vars /\ WF_timers(TimerElapses)

(***************************************************************************)
(* Selections: selectPointsInBounds (lines 616-639), selectChartRange      *)
(* (lines 1467-1491) and resetChartZoom (lines 825-846).  Indices are the  *)
(* 0-based indices of the source; data[i + 1] is its simulationData[i].    *)
(***************************************************************************)
\* the truthiness of a number that may be missing
Truthy(has, x) == has /\ ~IsNaN(x) /\ ~Eq(x, Zero)

\* L.latLngBounds of two corners, and its contains
LatLngBounds(a, b) ==
    [south |-> IF Le(a.lat, b.lat) THEN a.lat ELSE b.lat,
     north |-> IF Le(a.lat, b.lat) THEN b.lat ELSE a.lat,
     west |-> IF Le(a.lng, b.lng) THEN a.lng ELSE b.lng,
     east |-> IF Le(a.lng, b.lng) THEN b.lng ELSE a.lng]
Contains(bounds, lat, lon) ==
    /\ Ge(lat, bounds.south) /\ Le(lat, bounds.north)
    /\ Ge(lon, bounds.west) /\ Le(lon, bounds.east)

\* lines 622-631: the loop from index i on; NullIdx stands for null
RECURSIVE PointsLoop(_, _, _, _, _)
PointsLoop(data, bounds, i, startIdx, endIdx) ==
    IF i >= Len(data) THEN [startIdx |-> startIdx, endIdx |-> endIdx]
    ELSE IF /\ Truthy(data[i + 1].hasLatLon, data[i + 1].lat)
            /\ Truthy(data[i + 1].hasLatLon, data[i + 1].lon)
            /\ Contains(bounds, data[i + 1].lat, data[i + 1].lon)
         THEN PointsLoop(data, bounds, i + 1,
                         IF startIdx = NullIdx THEN i ELSE startIdx, i)
         ELSE PointsLoop(data, bounds, i + 1, startIdx, endIdx)

\* lines 1477-1482: one pass of the loop
ChartLoop(data, startDistM, endDistM, i, startIdx, endIdx) ==
    [startIdx |-> IF Ge(data[i + 1].distance, startDistM) /\ startIdx = 0
                  THEN i ELSE startIdx,
     endIdx |-> IF Le(data[i + 1].distance, endDistM) THEN i ELSE endIdx]

RECURSIVE ChartLoopFrom(_, _, _, _, _)
ChartLoopFrom(data, startDistM, endDistM, i, acc) ==
    IF i >= Len(data) THEN acc
    ELSE ChartLoopFrom(data, startDistM, endDistM, i + 1,
             ChartLoop(data, startDistM, endDistM, i, acc.startIdx, acc.endIdx))

\* lines 1470-1483: the indices that selectChartRange arrives at
ChartIndices(data, startDistKm, endDistKm) ==
    ChartLoopFrom(data, Mul(startDistKm, NumOf(1000, 1)),
                  Mul(endDistKm, NumOf(1000, 1)), 0,
                  [startIdx |-> 0, endIdx |-> Len(data) - 1])

\* lines 633-638 and 1485-1490: the range taken and the cards updated
ApplySelection(startIdx, endIdx) ==
    /\ selectedRange' = [set |-> TRUE, start |-> startIdx, end |-> endIdx]
    /\ SummaryCall(startIdx, endIdx)

\* lines 616-639: selectPointsInBounds
SelectPointsInBoundsOn(bounds) ==
    IF /\ simulationDataGlobal.set
       /\ PointsLoop(simulationDataGlobal.data, bounds, 1, NullIdx, NullIdx).startIdx
              # NullIdx
    THEN ApplySelection(
            PointsLoop(simulationDataGlobal.data, bounds, 1, NullIdx, NullIdx).startIdx,
            PointsLoop(simulationDataGlobal.data, bounds, 1, NullIdx, NullIdx).endIdx)
    ELSE UNCHANGED <<selectedRange, cards>>

\* lines 1467-1491: selectChartRange
SelectChartRangeOn(startDistKm, endDistKm) ==
    IF /\ simulationDataGlobal.set
       /\ ChartIndices(simulationDataGlobal.data, startDistKm, endDistKm).startIdx
            < ChartIndices(simulationDataGlobal.data, startDistKm, endDistKm).endIdx
    THEN ApplySelection(
            ChartIndices(simulationDataGlobal.data, startDistKm, endDistKm).startIdx,
            ChartIndices(simulationDataGlobal.data, startDistKm, endDistKm).endIdx)
    ELSE UNCHANGED <<selectedRange, cards>>

\* the corners a rectangle is drawn between, and the distances (km) a chart
\* selection lies between
MapCorners ==
    {[lat |-> NumOf(900, 1), lng |-> NumOf(6, 1)],
     [lat |-> NumOf(1182, 1), lng |-> NumOf(8, 1)],
     [lat |-> NumOf(1300, 1), lng |-> NumOf(8, 1)],
     [lat |-> NumOf(1300, 1), lng |-> NumOf(6, 1)]}
ChartValues == {Zero, NumOf(1, 10), NumOf(183, 1000), NumOf(1, 1)}

SelectRoute ==
    <<StartPoint, Moved(StartPoint, <<180, 0 - 19>>),
      Moved(Moved(StartPoint, <<180, 0 - 19>>), <<4, 3>>)>>
SelectFiles == AppFiles \cup {[ok |-> TRUE, points |-> SelectRoute]}

SelectInit ==
    /\ AppInit
    /\ Eq(inputs.pmax, NumOf(250, 1))

SelectUpload == \E f \in SelectFiles : UploadOf(f)

SelectPointsInBounds ==
    /\ \E a \in MapCorners : \E b \in MapCorners :
            SelectPointsInBoundsOn(LatLngBounds(a, b))
    /\ hist' = [hist EXCEPT !.invoked = FALSE]
    /\ UNCHANGED <<cs, gpxData, inputs, simulationDataGlobal, run, lastAlert, noted,
                   simulateTimeout, timers, defaultLoad, isSelecting, isChartSelecting,
                   map, charts>>

SelectChartRange ==
    /\ \E startDistKm \in ChartValues : \E endDistKm \in ChartValues :
          /\ Le(startDistKm, endDistKm)
          /\ SelectChartRangeOn(startDistKm, endDistKm)
          /\ hist' = [hist EXCEPT !.invoked = FALSE,
                                  !.request = IF simulationDataGlobal.set
                                              THEN <<startDistKm, endDistKm>> ELSE @]
    /\ UNCHANGED <<cs, gpxData, inputs, simulationDataGlobal, run, lastAlert, noted,
                   simulateTimeout, timers, defaultLoad, isSelecting, isChartSelecting,
                   map, charts>>

\* lines 825-846: resetChartZoom; without a result updateSummaryCards throws
\* at line 417
ResetChartZoom ==
    /\ selectedRange' = NoRange
    /\ IF simulationDataGlobal.set
       THEN SummaryCall(0, NullIdx)
       ELSE UNCHANGED cards
    /\ hist' = [hist EXCEPT !.invoked = FALSE]
    /\ UNCHANGED <<cs, gpxData, inputs, simulationDataGlobal, run, lastAlert, noted,
                   simulateTimeout, timers, defaultLoad, isSelecting, isChartSelecting,
                   map, charts>>

SelectNext == SelectUpload \/ SelectPointsInBounds \/ SelectChartRange \/ ResetChartZoom

SpecSelect == SelectInit /\ [][SelectNext]_vars

(***************************************************************************)
(* The rectangle selection on the map, lines 555-613, and the runs of the  *)
(* simulation that make the map anew.  The handlers belong to one map and  *)
(* hold its selectionRect and startLatLng; isSelecting is global.          *)
(* hist.mouse is the last mouse event.                                     *)
(***************************************************************************)
MapInit ==
    /\ SimInit
    /\ gpxData.points = SelectRoute
    /\ Eq(inputs.pmax, NumOf(250, 1))

\* lines 573-589: mousedown on the map
MapMouseDown ==
    /\ map.exists
    /\ \E shiftKey \in BOOLEAN : \E latlng \in MapCorners :
          IF shiftKey
          THEN /\ isSelecting' = TRUE
               /\ map' = [map EXCEPT !.selectionRect = TRUE, !.startLatLng = latlng,
                                     !.rectEnd = latlng, !.dragging = FALSE]
          ELSE UNCHANGED <<isSelecting, map>>
    /\ hist' = [hist EXCEPT !.mouse = "down"]
    /\ UNCHANGED <<cs, gpxData, inputs, simulationDataGlobal, selectedRange, run, cards,
                   lastAlert, noted, simulateTimeout, timers, defaultLoad,
                   isChartSelecting, charts>>

\* lines 591-596: mousemove on the map
MapMouseMove ==
    /\ map.exists
    /\ \E latlng \in MapCorners :
          IF isSelecting /\ map.selectionRect
          THEN map' = [map EXCEPT !.rectEnd = latlng]
          ELSE UNCHANGED map
    /\ hist' = [hist EXCEPT !.mouse = "move"]
    /\ UNCHANGED <<cs, gpxData, inputs, simulationDataGlobal, selectedRange, run, cards,
                   lastAlert, noted, simulateTimeout, timers, defaultLoad, isSelecting,
                   isChartSelecting, charts>>

\* lines 598-612: mouseup on the map
MapMouseUp ==
    /\ map.exists
    /\ \E latlng \in MapCorners :
          IF isSelecting /\ map.selectionRect
          THEN /\ SelectPointsInBoundsOn(LatLngBounds(map.startLatLng, latlng))
               /\ map' = [map EXCEPT !.selectionRect = FALSE, !.startLatLng = NoLatLng,
                                     !.rectEnd = NoLatLng, !.dragging = TRUE]
               /\ isSelecting' = FALSE
          ELSE UNCHANGED <<selectedRange, cards, map, isSelecting>>
    /\ hist' = [hist EXCEPT !.mouse = "up"]
    /\ UNCHANGED <<cs, gpxData, inputs, simulationDataGlobal, run, lastAlert, noted,
                   simulateTimeout, timers, defaultLoad, isChartSelecting, charts>>

MapNext == RunSimulation \/ MapMouseDown \/ MapMouseMove \/ MapMouseUp

SpecMap == MapInit /\ [][MapNext]_vars

(***************************************************************************)
(* The selection on the charts, lines 1412-1464.  Each chart has its own   *)
(* selectionStartX; isChartSelecting is one for all: line 882 declares it  *)
(* inside displayCharts, out of the scope of enableChartSelection, so the  *)
(* assignment of line 1422 makes a global of it (the script is not in      *)
(* strict mode) and a read before that throws.  The charts are those of    *)
(* the first run of the simulation.                                        *)
(***************************************************************************)
ChartPixels == {1, 2}
\* xScale.getValueForPixel, in km
ValueForPixel(x) == IF x = 1 THEN Zero ELSE NumOf(183, 1000)
Selecting == [declared |-> TRUE, value |-> TRUE]
NotSelecting == [declared |-> TRUE, value |-> FALSE]

ChartsInit == MapInit

FirstRun ==
    /\ ~run.set
    /\ RunSimulation

\* lines 1420-1431: mousedown on the canvas of chart c
ChartMouseDown ==
    /\ \E c \in Charts : \E shiftKey \in BOOLEAN : \E x \in ChartPixels :
          /\ charts[c].exists
          /\ IF shiftKey
             THEN /\ isChartSelecting' = Selecting
                  /\ charts' = [charts EXCEPT ![c].selectionStartX = x,
                                              ![c].pan = FALSE]
             ELSE UNCHANGED <<isChartSelecting, charts>>
    /\ hist' = [hist EXCEPT !.mouse = "down"]
    /\ UNCHANGED <<cs, gpxData, inputs, simulationDataGlobal, selectedRange, run, cards,
                   lastAlert, noted, simulateTimeout, timers, defaultLoad, isSelecting,
                   map>>

\* lines 1442-1462: mouseup on the canvas of chart c at pixel endX
ChartMouseUp ==
    /\ \E c \in Charts : \E endX \in ChartPixels :
          /\ charts[c].exists
          /\ IF /\ isChartSelecting.declared /\ isChartSelecting.value
                /\ charts[c].selectionStartX # 0
             THEN /\ SelectChartRangeOn(
                         ValueForPixel(IF charts[c].selectionStartX <= endX
                                       THEN charts[c].selectionStartX ELSE endX),
                         ValueForPixel(IF charts[c].selectionStartX <= endX
                                       THEN endX ELSE charts[c].selectionStartX))
                  /\ charts' = [charts EXCEPT ![c].selectionStartX = 0,
                                              ![c].pan = TRUE]
                  /\ isChartSelecting' = NotSelecting
             ELSE UNCHANGED <<selectedRange, cards, charts, isChartSelecting>>
    /\ hist' = [hist EXCEPT !.mouse = "up"]
    /\ UNCHANGED <<cs, gpxData, inputs, simulationDataGlobal, run, lastAlert, noted,
                   simulateTimeout, timers, defaultLoad, isSelecting, map>>

ChartsNext == FirstRun \/ ChartMouseDown \/ ChartMouseUp

SpecCharts == ChartsInit /\ [][ChartsNext]_vars

PositiveInputs ==
    Positive(cs.mass) /\ Positive(cs.CdA) /\ Positive(cs.Pmax) /\ Positive(cs.Vmax_ms)
Power(v) == calculatePowerNeeded(v, cs.grade, cs.mass, cs.CdA)
BracketWidth == Sub(cs.b.vMax, cs.b.vMin)

\* C1: whenever the power needed at maxSpeedMs is at most maxPower,
\* calculateSpeed returns exactly maxSpeedMs.
C1_SpeedLimitedReturnsVmax ==
    (cs.pc = "returned" /\ Le(PowerAtVmax, cs.Pmax)) => Same(cs.ret, cs.Vmax_ms)

\* the boundary of C1: the demand at maxSpeedMs equals the budget
C1_Witness ==
    cs.pc = "returned" /\ Positive(cs.Pmax) /\ Eq(PowerAtVmax, cs.Pmax)

\* C2 as stated: for positive inputs the returned speed is in [0.1, maxSpeedMs].
C2_Original ==
    (cs.pc = "returned" /\ PositiveInputs) =>
        (Ge(cs.ret, NumOf(1, 10)) /\ Le(cs.ret, cs.Vmax_ms))

\* C2 amended: for positive inputs with maxSpeedMs >= 0.1 the returned speed
\* is in [0.1, maxSpeedMs], in the speed-limited and the power-limited branch.
C2_SpeedWithinBounds ==
    (cs.pc = "returned" /\ PositiveInputs /\ Ge(cs.Vmax_ms, NumOf(1, 10))) =>
        (Ge(cs.ret, NumOf(1, 10)) /\ Le(cs.ret, cs.Vmax_ms))

\* a search that ran against the floor: the budget is below the demand at 0.1 m/s
C2_Witness ==
    /\ Searched /\ PositiveInputs /\ Ge(cs.Vmax_ms, NumOf(1, 10))
    /\ Gt(Power(NumOf(1, 10)), cs.Pmax)

WithinTolerance ==
    /\ Le(Power(Sub(cs.ret, NumOf(1, 1000))), cs.Pmax)
    /\ Le(cs.Pmax, Power(Add(cs.ret, NumOf(1, 1000))))

\* C3 as stated: in the power-limited case with positive inputs the returned
\* speed balances the power within 0.001 m/s.
C3_Original ==
    (cs.pc = "returned" /\ PositiveInputs /\ Gt(PowerAtVmax, cs.Pmax)) =>
        WithinTolerance

\* C3 amended: in the power-limited case with positive inputs, when the budget
\* exceeds the demand at the 0.1 m/s floor and the search ends with a bracket
\* of width at most 0.001 (not by the iteration cap), the returned speed
\* balances the power within 0.001 m/s.
C3_PowerBalanceWithinTolerance ==
    (/\ cs.pc = "returned" /\ PositiveInputs /\ Gt(PowerAtVmax, cs.Pmax)
     /\ Lt(Power(NumOf(1, 10)), cs.Pmax)
     /\ Le(BracketWidth, NumOf(1, 1000))) =>
        WithinTolerance

C3_Witness ==
    /\ Searched /\ PositiveInputs /\ Gt(PowerAtVmax, cs.Pmax)
    /\ Lt(Power(NumOf(1, 10)), cs.Pmax)
    /\ Le(BracketWidth, NumOf(1, 1000))
    /\ cs.b.iterations > 10

SampleSpeeds ==
    {Zero, vMinInit, cs.Vmax_ms}
        \cup (IF cs.b = NoBracket THEN {} ELSE {cs.b.vMin, cs.b.vMax})

IncreasingOnSamples ==
    \A v1 \in SampleSpeeds : \A v2 \in SampleSpeeds :
        (Ge(v1, Zero) /\ Lt(v1, v2)) => Lt(Power(v1), Power(v2))

\* C5 as stated: for every grade and positive mass and dragArea the power
\* needed is strictly increasing in the speed on speed >= 0.
C5_Original ==
    (Positive(cs.mass) /\ Positive(cs.CdA)) => IncreasingOnSamples

\* C5 amended: for every grade >= -Crr (-0.004) and positive mass and dragArea
\* the power needed is strictly increasing in the speed on speed >= 0.
C5_PowerIncreasingInSpeed ==
    (Positive(cs.mass) /\ Positive(cs.CdA) /\ Ge(cs.grade, Neg(Crr))) =>
        IncreasingOnSamples

\* a descent gentler than the rolling resistance, in the middle of a search
C5_Witness ==
    /\ Lt(cs.grade, Zero) /\ Ge(cs.grade, Neg(Crr))
    /\ cs.pc = "loop" /\ cs.b.iterations > 2


(***************************************************************************)
(* The result sequence and its summaries (SpecSim).                        *)
(***************************************************************************)
Data == simulationDataGlobal.data
PositiveRun ==
    /\ run.set
    /\ Positive(run.mass) /\ Positive(run.CdA)
    /\ Positive(run.Pmax) /\ Positive(run.Vmax_kmh)
SameTotals(a, b) ==
    /\ Same(a.totalTime, b.totalTime)
    /\ Same(a.totalDistance, b.totalDistance)
    /\ Same(a.avgSpeed, b.avgSpeed)
    /\ Same(a.avgPower, b.avgPower)

\* C6: in the sequence runSimulation produces for a route of at least 2
\* points and positive rider parameters, distance, time and elevationGain
\* are each non-decreasing from every index i to i+1.
C6_FieldsNonDecreasing ==
    (simulationDataGlobal.set /\ PositiveRun /\ Len(gpxData.points) >= 2) =>
        \A i \in 1..(Len(Data) - 1) :
            /\ Le(Data[i].distance, Data[i + 1].distance)
            /\ Le(Data[i].time, Data[i + 1].time)
            /\ Le(Data[i].elevationGain, Data[i + 1].elevationGain)

\* a climb and then a descent: the gain rises and then stays
C6_Witness ==
    /\ simulationDataGlobal.set /\ PositiveRun /\ Len(Data) = 3
    /\ Lt(Data[1].elevationGain, Data[2].elevationGain)
    /\ Lt(Data[3].elevation, Data[2].elevation)
    /\ Eq(Data[2].elevationGain, Data[3].elevationGain)
    /\ Lt(Data[2].time, Data[3].time)

\* C7 as stated: for every simulated route, one whose points all coincide
\* included, the totals updateSummaryCards computes over the full range with
\* default indices equal the totals runSimulation computes in its own pass.
C7_Original ==
    (run.set /\ cards.set /\ cards.startIdx = 0 /\ cards.endIdx = NullIdx) =>
        SameTotals(cards.out, run.totals)

\* a route whose points all coincide: runSimulation has divided 0 by 0, the
\* cards show 0
C7_Diverges ==
    /\ run.set /\ cards.set /\ cards.startIdx = 0 /\ cards.endIdx = NullIdx
    /\ Eq(run.totals.totalTime, Zero)
    /\ IsNaN(run.totals.avgSpeed) /\ IsNaN(run.totals.avgPower)
    /\ Eq(cards.out.avgSpeed, Zero) /\ Eq(cards.out.avgPower, Zero)

\* C8 as stated: for every 0 <= start <= end <= length - 1, end = 0 and
\* start = end included, updateSummaryCards(data, start, end) computes
\* totalTime = data[end].time - data[start].time and
\* totalDistance = data[end].distance - data[start].distance.
C8_Original ==
    (cards.set /\ cards.endIdx # NullIdx) =>
        /\ Same(cards.out.totalTime,
                Sub(Data[cards.endIdx + 1].time, Data[cards.startIdx + 1].time))
        /\ Same(cards.out.totalDistance,
                Sub(Data[cards.endIdx + 1].distance, Data[cards.startIdx + 1].distance))

\* the range 0..0 asked for, the whole route summed
C8_Diverges ==
    /\ cards.set /\ cards.startIdx = 0 /\ cards.endIdx = 0
    /\ Gt(cards.out.totalTime, Zero)
    /\ Eq(cards.out.totalTime, Data[Len(Data)].time)
    /\ Eq(cards.out.totalDistance, Data[Len(Data)].distance)

\* C9: for a range of a sequence simulated with positive parameters, when the
\* totalTime updateSummaryCards computes is 0 then avgSpeed and avgPower are
\* 0 (not the NaN of a division by 0), and otherwise
\* avgSpeed = totalDistance / totalTime * 3.6.
C9_ZeroTimeGuard ==
    (cards.set /\ PositiveRun) =>
        IF Eq(cards.out.totalTime, Zero)
        THEN Eq(cards.out.avgSpeed, Zero) /\ Eq(cards.out.avgPower, Zero)
        ELSE Eq(cards.out.avgSpeed,
                Mul(Div(cards.out.totalDistance, cards.out.totalTime), NumOf(36, 10)))

\* a range of zero duration inside a route that takes time
C9_Witness ==
    /\ cards.set /\ PositiveRun
    /\ cards.startIdx = 1 /\ cards.endIdx = 2
    /\ Eq(cards.out.totalTime, Zero)
    /\ Gt(Data[Len(Data)].time, Zero)
    /\ Eq(cards.out.avgSpeed, Zero) /\ Eq(cards.out.avgPower, Zero)

\* the sum of (power[i] - mean) * (time[i] - time[i-1]) over i..last
RECURSIVE WeightedDeviation(_, _, _, _)
WeightedDeviation(data, i, last, mean) ==
    IF i > last THEN Zero
    ELSE Add(Mul(Sub(data[i + 1].power, mean), Sub(data[i + 1].time, data[i].time)),
             WeightedDeviation(data, i + 1, last, mean))

PowerAltered(data, k) ==
    [data EXCEPT ![k + 1].power = Add(data[k + 1].power, NumOf(1000, 1))]

\* C10: for a range start < end with totalTime > 0 of a sequence with
\* non-decreasing time, avgPower is the mean of power over the points
\* start+1..end weighted by time[i] - time[i-1]; it is not below the smallest
\* and not above the largest power among those points, and does not change
\* with data[start].power.
C10_TimeWeightedMean ==
    (cards.set /\ PositiveRun /\ cards.endIdx # NullIdx
        /\ cards.startIdx < cards.endIdx /\ Gt(cards.out.totalTime, Zero)) =>
        /\ Eq(WeightedDeviation(Data, cards.startIdx + 1, cards.endIdx,
                                cards.out.avgPower), Zero)
        /\ \E i \in (cards.startIdx + 1)..cards.endIdx :
                Le(Data[i + 1].power, cards.out.avgPower)
        /\ \E i \in (cards.startIdx + 1)..cards.endIdx :
                Ge(Data[i + 1].power, cards.out.avgPower)
        /\ Same(updateSummaryCards(PowerAltered(Data, cards.startIdx),
                                   cards.startIdx, cards.endIdx).avgPower,
                cards.out.avgPower)

\* two segments of different power and duration: the mean lies strictly
\* between the two powers and is not their plain mean
C10_Witness ==
    /\ cards.set /\ PositiveRun /\ cards.startIdx = 0 /\ cards.endIdx = 2
    /\ Gt(cards.out.totalTime, Zero)
    /\ Lt(Data[2].power, cards.out.avgPower)
    /\ Lt(cards.out.avgPower, Data[3].power)
    /\ ~Eq(Mul(cards.out.avgPower, Two), Add(Data[2].power, Data[3].power))
    /\ ~Eq(Sub(Data[2].time, Data[1].time), Sub(Data[3].time, Data[2].time))

InsufficientData == "Not enough data points to simulate"

\* C12: a step in which runSimulation is called with a loaded route of 0 or
\* 1 points raises the insufficient-data alert; the route has no segment,
\* and the stored sequence, the totals, the cards and the selection are left
\* as they were: nothing is produced or displayed for that route.
C12_ShortRouteRejected ==
    [][(hist'.invoked /\ gpxData'.loaded /\ Len(gpxData'.points) < 2) =>
            /\ lastAlert' = InsufficientData
            /\ calculateSegmentData(gpxData'.points) = <<>>
            /\ UNCHANGED <<simulationDataGlobal, run, cards, selectedRange>>]_vars

\* the timer has called runSimulation on a route without points
C12_Witness ==
    /\ hist.invoked /\ hist.timerRuns = 1
    /\ gpxData.loaded /\ Len(gpxData.points) = 0
    /\ lastAlert = InsufficientData
    /\ ~simulationDataGlobal.set

(***************************************************************************)
(* Field values outside the rider's domain (SpecInvalid).                  *)
(***************************************************************************)
\* the speed_ms of the segment that ends at index i (0-based, i >= 1)
SpeedMs(i) == Div(Data[i + 1].speed, NumOf(36, 10))

\* C13 as stated: in every simulation run, whatever the rider parameters
\* are, the speed by which a segment distance is divided is never 0.
C13_Original ==
    run.set => \A i \in 1..(Len(Data) - 1) : ~Eq(SpeedMs(i), Zero)

\* a speed cap of 0: the solver returns 0 and the time of a segment 181 m
\* long is 181 / 0
C13_Diverges ==
    /\ run.set /\ Eq(run.Vmax_kmh, Zero) /\ Gt(run.Pmax, Zero)
    /\ Eq(SpeedMs(1), Zero)
    /\ Gt(Data[2].distance, Zero)
    /\ Same(Data[2].time, Infinity(1))

(***************************************************************************)
(* The power reported per segment (SpecEdge).                              *)
(***************************************************************************)
RunVmaxMs == Div(run.Vmax_kmh, NumOf(36, 10))
\* the grade of the segment that ends at index i, as a ratio
GradeOf(i) == Div(Data[i + 1].grade, NumOf(100, 1))
NeededAt(v, i) == calculatePowerNeeded(v, GradeOf(i), run.mass, run.CdA)
MathMin(x, y) == IF Le(x, y) THEN x ELSE y
Segments == 1..(Len(Data) - 1)

C15_Original ==
    (simulationDataGlobal.set /\ PositiveRun) =>
        \A i \in Segments :
            /\ Eq(Data[i + 1].power, MathMin(run.Pmax, NeededAt(RunVmaxMs, i)))
            /\ Le(Data[i + 1].power, run.Pmax)

\* a power-limited descent whose solved speed is within 0.01 m/s below Vmax:
\* the power needed at the solved speed is reported and it is above Pmax
C15_Diverges ==
    /\ simulationDataGlobal.set /\ PositiveRun /\ Len(Data) >= 2
    /\ Ge(RunVmaxMs, NumOf(1, 10))
    /\ Gt(NeededAt(RunVmaxMs, 1), run.Pmax)
    /\ Lt(SpeedMs(1), RunVmaxMs)
    /\ Eq(Data[2].power, NeededAt(SpeedMs(1), 1))
    /\ Gt(Data[2].power, run.Pmax)

(***************************************************************************)
(* The segments and the result sequence of a route (SpecSim).              *)
(***************************************************************************)
Points == gpxData.points
Segs == calculateSegmentData(gpxData.points)
\* segment i (1-based) is the segment of the points i and i + 1
SegmentOfPair(i) ==
    /\ Same(Segs[i].elevation, Points[i + 1].ele)
    /\ Same(Segs[i].lat, Points[i + 1].lat)
    /\ Same(Segs[i].lon, Points[i + 1].lon)
    /\ Ge(Segs[i].distance, Zero)
    /\ Eq(Mul(Segs[i].distance, Segs[i].distance),
          Add(Mul(Sub(Points[i + 1].lat, Points[i].lat),
                  Sub(Points[i + 1].lat, Points[i].lat)),
              Mul(Sub(Points[i + 1].ele, Points[i].ele),
                  Sub(Points[i + 1].ele, Points[i].ele))))

\* C16: calculateSegmentData returns N - 1 segments for a route of N >= 2
\* points, the i-th of them the segment of the i-th consecutive pair, and the
\* empty sequence for a route of 0 or 1 points.
C16_OneSegmentPerPair ==
    IF Len(Points) >= 2
    THEN /\ Len(Segs) = Len(Points) - 1
         /\ \A i \in 1..(Len(Points) - 1) : SegmentOfPair(i)
    ELSE Segs = <<>>

\* a simulated route of three points whose two segments differ
C16_Witness ==
    /\ simulationDataGlobal.set /\ Len(Points) = 3 /\ Len(Segs) = 2
    /\ ~Eq(Segs[1].distance, Segs[2].distance)
    /\ Len(Data) = Len(Segs) + 1

\* the points i and i + 1 have the same latitude and longitude and
\* different elevations
Stacked(i) ==
    /\ Eq(Points[i].lat, Points[i + 1].lat)
    /\ Eq(Points[i].lon, Points[i + 1].lon)
    /\ ~Eq(Points[i].ele, Points[i + 1].ele)

\* C17: the segment of two consecutive points with the same latitude and
\* longitude and different elevations has grade 0 and the absolute elevation
\* difference as distance; nothing was divided by zero, the grade is finite.
C17_StackedPoints ==
    \A i \in 1..(Len(Points) - 1) :
        Stacked(i) =>
            /\ IsFinite(Segs[i].grade)
            /\ Eq(Segs[i].grade, Zero)
            /\ Eq(Segs[i].distance, Abs(Sub(Points[i + 1].ele, Points[i].ele)))

\* a simulated route with a stacked pair, whose result carries the grade 0
C17_Witness ==
    /\ simulationDataGlobal.set
    /\ \E i \in 1..(Len(Points) - 1) :
          /\ Stacked(i)
          /\ Eq(Segs[i].distance, NumOf(5, 1))
          /\ Eq(Data[i + 1].grade, Zero)

\* C18: the result of a route of N >= 2 points has N entries, and its first
\* entry is the synthetic origin: distance, speed, power, time, grade and
\* elevationGain 0, the elevation of the first track point, no lat/lon.
C18_SyntheticOrigin ==
    (simulationDataGlobal.set /\ Len(Points) >= 2) =>
        /\ Len(Data) = Len(Points)
        /\ Eq(Data[1].distance, Zero) /\ Eq(Data[1].speed, Zero)
        /\ Eq(Data[1].power, Zero) /\ Eq(Data[1].time, Zero)
        /\ Eq(Data[1].grade, Zero) /\ Eq(Data[1].elevationGain, Zero)
        /\ Eq(Data[1].elevation, Points[1].ele)
        /\ ~Data[1].hasLatLon

\* a simulated route of three points: three entries, the later ones with
\* coordinates and a distance travelled
C18_Witness ==
    /\ simulationDataGlobal.set /\ Len(Points) = 3 /\ Len(Data) = 3
    /\ ~Data[1].hasLatLon /\ Data[2].hasLatLon /\ Data[3].hasLatLon
    /\ Gt(Data[3].distance, Zero)

\* the sum over i = 1..k of max(0, elevation[i] - elevation[i-1]) of the
\* track points (0-based indices, as in the source)
RECURSIVE ClimbSum(_)
ClimbSum(k) ==
    IF k = 0 THEN Zero
    ELSE Add(ClimbSum(k - 1),
             MathMax(Zero, Sub(Points[k + 1].ele, Points[k].ele)))

\* C19: the elevationGain of the entry of index k is the sum over i = 1..k
\* of max(0, elevation[i] - elevation[i-1]) of the track points; it is never
\* negative.
C19_GainIsSumOfClimbs ==
    simulationDataGlobal.set =>
        \A k \in 0..(Len(Data) - 1) :
            /\ Eq(Data[k + 1].elevationGain, ClimbSum(k))
            /\ Ge(Data[k + 1].elevationGain, Zero)

\* a climb followed by a descent: the descent leaves the gain as it was
C19_Witness ==
    /\ simulationDataGlobal.set /\ Len(Data) = 3
    /\ Gt(Points[2].ele, Points[1].ele) /\ Lt(Points[3].ele, Points[2].ele)
    /\ Gt(Data[2].elevationGain, Zero)
    /\ Eq(Data[3].elevationGain, Data[2].elevationGain)

(***************************************************************************)
(* The debounce of parameter changes (SpecApp).  hist.changes counts the   *)
(* changes of the current burst, which begins with a change made while no  *)
(* timer is pending, and hist.timerRuns the calls of runSimulation made by *)
(* timers since it began.                                                  *)
(***************************************************************************)
RunOfCurrentInputs ==
    /\ run.set
    /\ Same(run.mass, inputs.weight) /\ Same(run.CdA, inputs.cda)
    /\ Same(run.Pmax, inputs.pmax) /\ Same(run.Vmax_kmh, inputs.vmax)

\* C20: at most one debounce timer is pending, and it is the one set last;
\* with a route loaded a burst of parameter changes, each made while the
\* timer of the previous one is pending, has made no timer call of
\* runSimulation while its timer is pending and exactly one once it is not,
\* made after the last change: the result of a route of two or more points
\* is then of the current parameters; with no route loaded nothing was ever
\* scheduled.
C20_Debounced ==
    /\ Cardinality(timers) <= 1
    /\ timers \subseteq {simulateTimeout}
    /\ ~gpxData.loaded => (timers = {} /\ simulateTimeout = 0 /\ hist.changes = 0)
    /\ hist.changes > 0 =>
          /\ gpxData.loaded
          /\ IF timers # {} THEN hist.timerRuns = 0 ELSE hist.timerRuns = 1
          /\ (timers = {} /\ Len(gpxData.points) >= 2) => RunOfCurrentInputs

\* a burst of two changes on a loaded route of two points, ended by the one
\* run of its timer
C20_Witness ==
    /\ gpxData.loaded /\ Len(gpxData.points) = 2
    /\ hist.changes = 2 /\ hist.timerRuns = 1 /\ hist.invoked
    /\ timers = {} /\ simulateTimeout = 2
    /\ RunOfCurrentInputs
    /\ Eq(inputs.pmax, NumOf(30, 1)) /\ Eq(inputs.vmax, NumOf(40, 1))

(***************************************************************************)
(* The default route and the user's upload (SpecLoad).                     *)
(***************************************************************************)
\* C21 as stated: once gpxData holds a route that the user uploaded, no step
\* replaces it by the default route.
C21_Original == [][hist.origin = "user" => hist'.origin = "user"]_vars

\* the default route stored and simulated over the user's route of two
\* points and its result
C21_Diverges ==
    /\ hist.origin = "default over user"
    /\ defaultLoad = "done"
    /\ gpxData.points = DefaultRoute
    /\ simulationDataGlobal.set
    /\ Eq(Data[2].elevation, DefaultRoute[2].ele)
    /\ hist.invoked

(***************************************************************************)
(* The stored result and the loaded route (SpecApp).                       *)
(***************************************************************************)
\* C22 as stated: whenever a result is stored it has as many entries as the
\* loaded route has points.
C22_Original ==
    simulationDataGlobal.set => Len(Data) = Len(gpxData.points)

\* the result of a route of two points still stored after a route of one
\* point was loaded and runSimulation gave it up
C22_Diverges ==
    /\ gpxData.loaded /\ Len(gpxData.points) = 1
    /\ simulationDataGlobal.set /\ Len(Data) = 2
    /\ run.set /\ cards.set
    /\ hist.invoked /\ lastAlert = InsufficientData

(***************************************************************************)
(* The selected range (SpecSelect).                                        *)
(***************************************************************************)
RangeWithinResult ==
    selectedRange.set =>
        /\ simulationDataGlobal.set
        /\ 0 <= selectedRange.start
        /\ selectedRange.start <= selectedRange.end
        /\ selectedRange.end <= Len(Data) - 1

AtOrAfter(d) ==
    {i \in 0..(Len(Data) - 1) : Ge(Data[i + 1].distance, Mul(d, NumOf(1000, 1)))}
UpTo(d) ==
    {i \in 0..(Len(Data) - 1) : Le(Data[i + 1].distance, Mul(d, NumOf(1000, 1)))}
Least(S) == CHOOSE i \in S : \A j \in S : i <= j
Greatest(S) == CHOOSE i \in S : \A j \in S : j <= i
Picked(s, e) == ChartIndices(Data, s, e)

\* C24 as stated: for start <= end selectChartRange takes as startIdx the
\* smallest index whose distance is >= start and as endIdx the largest index
\* whose distance is <= end; a start of 0 gives startIdx 0, and a start
\* beyond the end of the route gives no selection (not startIdx < endIdx).
C24_Original ==
    simulationDataGlobal.set =>
        \A s \in ChartValues : \A e \in ChartValues :
            Le(s, e) =>
                /\ AtOrAfter(s) # {} => Picked(s, e).startIdx = Least(AtOrAfter(s))
                /\ UpTo(e) # {} => Picked(s, e).endIdx = Greatest(UpTo(e))
                /\ Eq(s, Zero) => Picked(s, e).startIdx = 0
                /\ AtOrAfter(s) = {} => ~(Picked(s, e).startIdx < Picked(s, e).endIdx)

\* the chart selection from 1 km to 1 km on a route of 186 m: the whole
\* result is selected and shown on the cards
C24_Diverges ==
    /\ simulationDataGlobal.set /\ Len(Data) = 3
    /\ Len(hist.request) = 2
    /\ Eq(hist.request[1], NumOf(1, 1)) /\ Eq(hist.request[2], NumOf(1, 1))
    /\ AtOrAfter(hist.request[1]) = {}
    /\ selectedRange = [set |-> TRUE, start |-> 0, end |-> 2]
    /\ cards.startIdx = 0 /\ cards.endIdx = 2

\* the chart selection from 0 km on: it begins at index 1
C24_DivergesAtZero ==
    /\ simulationDataGlobal.set /\ Len(Data) = 3
    /\ Len(hist.request) = 2
    /\ Eq(hist.request[1], Zero) /\ Eq(hist.request[2], NumOf(1, 1))
    /\ Picked(Zero, NumOf(1, 1)).startIdx = 1
    /\ selectedRange = [set |-> TRUE, start |-> 1, end |-> 2]

(***************************************************************************)
(* The selection on the map (SpecMap).                                     *)
(***************************************************************************)
\* C25 as stated: isSelecting is true exactly while the map has a selection
\* rectangle and its dragging disabled, and after a mouseup on the map
\* isSelecting is false and dragging is enabled.
C25_Original ==
    map.exists =>
        /\ isSelecting <=> (map.selectionRect /\ ~map.dragging)
        /\ hist.mouse = "up" => (~isSelecting /\ map.dragging)

\* a mouseup on a map made by a run of the simulation during the selection:
\* no rectangle, dragging enabled, isSelecting still true
C25_Diverges ==
    /\ map.exists /\ run.set
    /\ hist.mouse = "up"
    /\ isSelecting
    /\ ~map.selectionRect /\ map.dragging

(***************************************************************************)
(* The selection on the charts (SpecCharts).                               *)
(***************************************************************************)
\* C26 as stated: whenever isChartSelecting is not true, which after a
\* selection it is from a mouseup on, panning is enabled on every chart.
C26_Original ==
    ~isChartSelecting.value => \A c \in Charts : charts[c].exists => charts[c].pan

\* a mouseup has ended the selection, and a chart on which a selection was
\* started before has its pan disabled and its selectionStartX set
C26_Diverges ==
    /\ isChartSelecting = NotSelecting
    /\ hist.mouse = "up"
    /\ \E c \in Charts :
          /\ charts[c].exists /\ ~charts[c].pan /\ charts[c].selectionStartX # 0
          /\ \A d \in Charts \ {c} : charts[d].pan /\ charts[d].selectionStartX = 0

(***************************************************************************)
(* No parameter change is lost (SpecAppLive).                              *)
(***************************************************************************)
\* parameter changes were made on a loaded route and no timer has called
\* runSimulation since
Unserved == gpxData.loaded /\ hist.changes > 0 /\ hist.timerRuns = 0
\* a timer has called runSimulation after the last change, and the result of
\* a route of two or more points is of the current parameters
Served ==
    /\ timers = {} /\ hist.timerRuns = 1
    /\ Len(gpxData.points) >= 2 => RunOfCurrentInputs

\* C27: with a route loaded every parameter change is eventually followed
\* by a run of the simulation made by the timer after the last change, which
\* reads the parameters then in effect, given that a pending timer fires.
C27_ChangeLeadsToRun == Unserved ~> Served

\* one parameter change on a route of two points, served by its timer
C27_Witness ==
    /\ gpxData.loaded /\ Len(gpxData.points) = 2
    /\ hist.changes = 1 /\ hist.invoked
    /\ Served
    /\ simulateTimeout = 1

=============================================================================
